---- MODULE Spec2Model ----
(***************************************************************************)
(* Probabilistic linear discriminant analysis notebook                     *)
(* (src/Code_AFD_Grp13_MGSI.ipynb), modelled as a state machine whose      *)
(* steps are the notebook's code cells run in order ("Run All").           *)
(*                                                                         *)
(* numpy float64 values are modelled by a binary floating-point format     *)
(* with the exponent range of float64 and a mantissa of MantBits bits      *)
(* (TLC integers have 32 bits, so 53-bit mantissas are out of reach).      *)
(* Arithmetic is correctly rounded (nearest, ties to even); NaN and the    *)
(* infinities follow IEEE 754.  Signed zeros and the gradual loss of       *)
(* precision of subnormal numbers are not modelled.                        *)
(***************************************************************************)
EXTENDS Integers, Sequences, FiniteSets, TLC

\* ----------------------------------------------------------------- bounds
\* Half the number of mantissa bits of the modelled floating-point format.
HalfBits == 12
MantBits == 2 * HalfBits

\* float64: values of 2^1024 and more overflow to infinity, values below
\* 2^-1074 (the smallest subnormal) underflow to zero.
DoubleMaxExp == 1024
DoubleMinExp == -1074

\* The array <<f[1], ..., f[n]>>, each entry computed once.
RECURSIVE Tabulate(_, _)
Tabulate(f, n) == IF n = 0 THEN <<>> ELSE Append(Tabulate(f, n - 1), f[n])

\* ------------------------------------------------------- floating point
Zero == [t |-> "fin", s |-> 1, m |-> 0, e |-> 0]
NaN == [t |-> "nan", s |-> 1, m |-> 0, e |-> 0]
Inf(sgn) == [t |-> "inf", s |-> sgn, m |-> 0, e |-> 0]

IsNaN(a) == a.t = "nan"
IsInf(a) == a.t = "inf"
IsFinite(a) == a.t = "fin"
IsZero(a) == a.t = "fin" /\ a.m = 0

\* The number of bits of 0 < n < 2^31, by binary search.
BitLen(n) ==
  IF n < 65536 THEN IF n < 256 THEN IF n < 16 THEN IF n < 4 THEN IF n < 2 THEN 1
          ELSE 2
        ELSE IF n < 8 THEN 3
          ELSE 4
      ELSE IF n < 64 THEN IF n < 32 THEN 5
          ELSE 6
        ELSE IF n < 128 THEN 7
          ELSE 8
    ELSE IF n < 4096 THEN IF n < 1024 THEN IF n < 512 THEN 9
          ELSE 10
        ELSE IF n < 2048 THEN 11
          ELSE 12
      ELSE IF n < 16384 THEN IF n < 8192 THEN 13
          ELSE 14
        ELSE IF n < 32768 THEN 15
          ELSE 16
  ELSE IF n < 16777216 THEN IF n < 1048576 THEN IF n < 262144 THEN IF n < 131072 THEN 17
          ELSE 18
        ELSE IF n < 524288 THEN 19
          ELSE 20
      ELSE IF n < 4194304 THEN IF n < 2097152 THEN 21
          ELSE 22
        ELSE IF n < 8388608 THEN 23
          ELSE 24
    ELSE IF n < 268435456 THEN IF n < 67108864 THEN IF n < 33554432 THEN 25
          ELSE 26
        ELSE IF n < 134217728 THEN 27
          ELSE 28
      ELSE IF n < 1073741824 THEN IF n < 536870912 THEN 29
          ELSE 30
        ELSE 31

\* A normalised mantissa m (MantBits bits) with exponent e: m * 2^e, or the
\* overflow / underflow result of float64.
Pack(sgn, m, e) ==
  IF e + MantBits > DoubleMaxExp THEN Inf(sgn)
  ELSE IF e + MantBits - 1 < DoubleMinExp THEN Zero
  ELSE [t |-> "fin", s |-> sgn, m |-> m, e |-> e]

\* The rounding of a mantissa kept with one more bit than MantBits carries
\* into the exponent.
RoundCarry(sgn, kept, e) ==
  IF kept = 2^MantBits THEN Pack(sgn, 2^(MantBits - 1), e + 1)
  ELSE Pack(sgn, kept, e)

\* keep * 2^e plus the fraction rem / (2 * half) of one unit of keep.
RoundKeep(sgn, keep, rem, half, e, sticky) ==
  RoundCarry(sgn,
             IF rem > half \/ (rem = half /\ (sticky \/ (keep % 2) = 1))
             THEN keep + 1 ELSE keep,
             e)

\* big has len bits.
RoundLen(sgn, big, e, sticky, len) ==
  IF len <= MantBits
  THEN Pack(sgn, big * 2^(MantBits - len), e - (MantBits - len))
  ELSE RoundKeep(sgn, big \div (2^(len - MantBits)), big % (2^(len - MantBits)),
                 2^(len - MantBits - 1), e + (len - MantBits), sticky)

\* Rounds big * 2^e (plus a positive amount below one unit of big when
\* sticky) to the nearest representable value, ties to even.
Round(sgn, big, e, sticky) ==
  IF big = 0 THEN Zero ELSE RoundLen(sgn, big, e, sticky, BitLen(big))

FromInt(n) == IF n < 0 THEN Round(-1, -n, 0, FALSE) ELSE Round(1, n, 0, FALSE)

FNeg(a) == IF a.t = "nan" \/ IsZero(a) THEN a ELSE [a EXCEPT !.s = -a.s]
FAbs(a) == IF a.t = "nan" THEN a ELSE [a EXCEPT !.s = 1]

\* The sort key of a value that is not NaN.
CmpKey(x) ==
  IF x.t = "inf" THEN <<x.s * 2, 0, 0>>
  ELSE IF x.m = 0 THEN <<0, 0, 0>>
  ELSE <<x.s, x.s * (x.e + 2000), x.s * x.m>>

CmpKeys(ka, kb) ==
  IF ka[1] # kb[1] THEN (IF ka[1] < kb[1] THEN -1 ELSE 1)
  ELSE IF ka[2] # kb[2] THEN (IF ka[2] < kb[2] THEN -1 ELSE 1)
  ELSE IF ka[3] # kb[3] THEN (IF ka[3] < kb[3] THEN -1 ELSE 1)
  ELSE 0

\* Three-way comparison of two values that are not NaN.
Cmp(a, b) == CmpKeys(CmpKey(a), CmpKey(b))

\* IEEE comparisons: every comparison with NaN is false.
FEq(a, b) == a.t # "nan" /\ b.t # "nan" /\ Cmp(a, b) = 0
FLt(a, b) == a.t # "nan" /\ b.t # "nan" /\ Cmp(a, b) < 0
FLe(a, b) == a.t # "nan" /\ b.t # "nan" /\ Cmp(a, b) <= 0
FGt(a, b) == FLt(b, a)
FGe(a, b) == FLe(b, a)

\* hi.m * 8 plus or minus the aligned lo.m * 8 (B, with its lost bits in
\* sticky), in units of 2^(hi.e - 3).
AddAligned(hi, lo, B, sticky) ==
  IF hi.s = lo.s
  THEN Round(hi.s, hi.m * 8 + B, hi.e - 3, sticky)
  ELSE IF hi.m * 8 - B >= 0
       THEN Round(hi.s, IF sticky THEN hi.m * 8 - B - 1 ELSE hi.m * 8 - B,
                  hi.e - 3, sticky)
       ELSE Round(lo.s, B - hi.m * 8, hi.e - 3, FALSE)

\* hi has the larger exponent, by d.
AddOrdered(hi, lo, d) ==
  IF d >= MantBits + 3 THEN AddAligned(hi, lo, 0, TRUE)
  ELSE AddAligned(hi, lo, (lo.m * 8) \div (2^d), ((lo.m * 8) % (2^d)) # 0)

FAddFinite(a, b) ==
  IF a.e >= b.e THEN AddOrdered(a, b, a.e - b.e) ELSE AddOrdered(b, a, b.e - a.e)

FAdd(a, b) ==
  IF a.t = "nan" \/ b.t = "nan" THEN NaN
  ELSE IF a.t = "inf" THEN (IF b.t = "inf" /\ b.s # a.s THEN NaN ELSE a)
  ELSE IF b.t = "inf" THEN b
  ELSE IF a.m = 0 THEN b
  ELSE IF b.m = 0 THEN a
  ELSE FAddFinite(a, b)

FSub(a, b) == FAdd(a, FNeg(b))

\* q * 2^MantBits + r is the product of two mantissas, top = 2^(MantBits-1):
\* the product rounded to MantBits bits, in units of 2^e.
MulRound(sgn, q, r, top, e) ==
  IF q >= top
  THEN RoundCarry(sgn, IF r > top \/ (r = top /\ (q % 2) = 1) THEN q + 1 ELSE q,
                  e + MantBits)
  ELSE RoundKeep(sgn, 2 * q + (r \div top), r % top, top \div 2,
                 e + MantBits - 1, FALSE)

\* The product of the mantissas from the partial products of their halves:
\* ll the low one, c2 the middle ones with the carry of ll.
MulParts(sgn, hh, c2, ll, H, e) ==
  MulRound(sgn, hh + (c2 \div H), (c2 % H) * H + (ll % H), (H * H) \div 2, e)

MulHalves(sgn, ah, al, bh, bl, H, e) ==
  MulParts(sgn, ah * bh, ah * bl + al * bh + ((al * bl) \div H), al * bl, H, e)

\* The 2*MantBits-bit product of the mantissas is formed from half-words.
FMulFinite(a, b) ==
  MulHalves(a.s * b.s, a.m \div (2^HalfBits), a.m % (2^HalfBits),
            b.m \div (2^HalfBits), b.m % (2^HalfBits), 2^HalfBits, a.e + b.e)

FMul(a, b) ==
  IF a.t = "nan" \/ b.t = "nan" THEN NaN
  ELSE IF a.t = "inf" THEN (IF IsZero(b) THEN NaN ELSE Inf(a.s * b.s))
  ELSE IF b.t = "inf" THEN (IF IsZero(a) THEN NaN ELSE Inf(a.s * b.s))
  ELSE IF a.m = 0 \/ b.m = 0 THEN Zero
  ELSE FMulFinite(a, b)

\* Long division, five quotient bits at a time: <<quotient, remainder>> after
\* at least `bits` more quotient bits.
RECURSIVE LongDiv(_, _, _, _, _)
LongDiv(q, r, den, done, bits) ==
  IF done >= bits THEN <<q, r, done>>
  ELSE LongDiv(q * 32 + ((r * 32) \div den), (r * 32) % den, den, done + 5, bits)

\* res = <<quotient, remainder, quotient bits after the point>>
DivRound(sgn, res, e) == Round(sgn, res[1], e - res[3], res[2] # 0)

FDivFinite(a, b) ==
  DivRound(a.s * b.s, LongDiv(a.m \div b.m, a.m % b.m, b.m, 0, MantBits + 1),
           a.e - b.e)

FDiv(a, b) ==
  IF a.t = "nan" \/ b.t = "nan" THEN NaN
  ELSE IF a.t = "inf" THEN (IF b.t = "inf" THEN NaN ELSE Inf(a.s * b.s))
  ELSE IF b.t = "inf" THEN Zero
  ELSE IF b.m = 0 THEN (IF a.m = 0 THEN NaN ELSE Inf(a.s))
  ELSE IF a.m = 0 THEN Zero
  ELSE FDivFinite(a, b)

\* Digit-by-digit square root: n more bits of the root of a radicand whose
\* leading pairs of bits are those of rad (pairs pairs), followed by zeros.
RECURSIVE SqrtBits(_, _, _, _, _)
RECURSIVE SqrtStep(_, _, _, _, _)
SqrtBits(root, rem, rad, pairs, n) ==
  IF n = 0 THEN <<root, rem>>
  ELSE SqrtStep(root, rem * 4 + (IF pairs > 0
                                   THEN ((rad \div (4^(pairs - 1))) % 4) ELSE 0),
                rad, pairs, n)

\* One bit of the root: r4 is the remainder with the next pair of bits.
SqrtStep(root, r4, rad, pairs, n) ==
  IF r4 >= root * 4 + 1
  THEN SqrtBits(root * 2 + 1, r4 - (root * 4 + 1), rad, pairs - 1, n - 1)
  ELSE SqrtBits(root * 2, r4, rad, pairs - 1, n - 1)

SqrtRound(res, e) == Round(1, res[1], e, res[2] # 0)

\* The root of rad * 2^ex, ex even.
SqrtEven(rad, ex) ==
  SqrtRound(SqrtBits(0, 0, rad, HalfBits + 1, MantBits + 2),
            (ex \div 2) - (MantBits + 2 - (HalfBits + 1)))

FSqrt(a) ==
  IF a.t = "nan" THEN NaN
  ELSE IF IsZero(a) THEN Zero
  ELSE IF a.s < 0 THEN NaN
  ELSE IF a.t = "inf" THEN a
  ELSE IF (a.e % 2) # 0 THEN SqrtEven(2 * a.m, a.e - 1)
  ELSE SqrtEven(a.m, a.e)

\* The constant num * 2^ex, num of 30 bits, rounded to the mantissa's width.
Lit(num, ex) ==
  [t |-> "fin", s |-> 1,
   m |-> (num + 2^(29 - MantBits)) \div (2^(30 - MantBits)),
   e |-> ex + (30 - MantBits)]

One == Lit(536870912, -29)
Half == Lit(536870912, -30)
SqrtHalf == Lit(759250125, -30)
Ln2 == Lit(744261118, -30)
Log2e == Lit(774541002, -29)

\* The integer nearest to a finite value of magnitude below 2^20.
ToIntRound(a) ==
  IF a.m = 0 THEN 0
  ELSE IF a.e >= 0 THEN a.s * a.m * 2^(a.e)
  ELSE IF -a.e > MantBits THEN 0
  ELSE a.s * ((a.m + 2^(-a.e - 1)) \div (2^(-a.e)))

\* 1 / n!
ExpCoefficient(n) ==
  CASE n = 1 -> Lit(536870912, -29)
    [] n = 2 -> Lit(536870912, -30)
    [] n = 3 -> Lit(715827883, -32)
    [] n = 4 -> Lit(715827883, -34)
    [] n = 5 -> Lit(572662306, -36)
    [] n = 6 -> Lit(763549742, -39)
    [] n = 7 -> Lit(872628276, -42)

\* exp(r) for |r| <= ln(2)/2 (and a little more), by its Taylor polynomial
\* in Horner's form.
RECURSIVE ExpPoly(_, _, _)
ExpPoly(r, n, acc) ==
  IF n = 0 THEN FAdd(One, FMul(r, acc))
  ELSE ExpPoly(r, n - 1, FAdd(ExpCoefficient(n), FMul(r, acc)))

\* acc * 2^k
Scale2(a, k) == IF a.t # "fin" \/ a.m = 0 THEN a ELSE Pack(a.s, a.m, a.e + k)

\* exp(a) = 2^k * exp(a - k * ln 2)
ExpReduced(a, k) ==
  Scale2(ExpPoly(FSub(a, FMul(FromInt(k), Ln2)), 6, ExpCoefficient(7)), k)

FExp(a) ==
  IF a.t = "nan" THEN NaN
  ELSE IF a.t = "inf" THEN (IF a.s > 0 THEN a ELSE Zero)
  ELSE IF a.m = 0 THEN One
  ELSE IF a.e + MantBits > 11 THEN (IF a.s > 0 THEN Inf(1) ELSE Zero)
  ELSE ExpReduced(a, ToIntRound(FMul(a, Log2e)))

\* log(u) for u in [sqrt(1/2), sqrt(2)), by the series of 2*atanh(w),
\* w = (u - 1) / (u + 1).
\* 2 / (2n - 1)
LogCoefficient(n) ==
  CASE n = 1 -> Lit(536870912, -28)
    [] n = 2 -> Lit(715827883, -30)
    [] n = 3 -> Lit(858993459, -31)
    [] n = 4 -> Lit(613566757, -31)
    [] n = 5 -> Lit(954437177, -32)

RECURSIVE LogSeries(_, _, _)
LogSeries(w2, n, acc) ==
  IF n = 0 THEN acc
  ELSE LogSeries(w2, n - 1, FAdd(LogCoefficient(n), FMul(w2, acc)))

\* k * ln 2 + 2 * atanh(w)
LogAtanh(k, w) ==
  FAdd(FMul(FromInt(k), Ln2), FMul(w, LogSeries(FMul(w, w), 5, Zero)))

\* log(2^k * u)
LogReduced(k, u) == LogAtanh(k, FDiv(FSub(u, One), FAdd(u, One)))

\* log(m * 2^e) with 2^k the power of two nearest to it.
LogScaled(m, e, k) == LogReduced(k, [t |-> "fin", s |-> 1, m |-> m, e |-> e - k])

FLog(a) ==
  IF a.t = "nan" THEN NaN
  ELSE IF IsZero(a) THEN Inf(-1)
  ELSE IF a.s < 0 THEN NaN
  ELSE IF a.t = "inf" THEN a
  ELSE LogScaled(a.m, a.e,
                 IF FLt([t |-> "fin", s |-> 1, m |-> a.m, e |-> -MantBits], SqrtHalf)
                 THEN a.e + MantBits - 1 ELSE a.e + MantBits)

\* ------------------------------------------------------------- vectors
\* <<F(1), ..., F(n)>>
Vec(n, F(_)) ==
  CASE n = 1 -> <<F(1)>>
    [] n = 2 -> <<F(1), F(2)>>
    [] n = 3 -> <<F(1), F(2), F(3)>>
    [] n = 4 -> <<F(1), F(2), F(3), F(4)>>
    [] OTHER -> Tabulate([i \in 1..n |-> F(i)], n)

Mat(n, m, F(_, _)) == Vec(n, LAMBDA i : Vec(m, LAMBDA j : F(i, j)))

\* np.sum / np.add.reduce of a short array: left to right.
RECURSIVE FSumTo(_, _)
FSumTo(v, n) == IF n = 0 THEN Zero ELSE FAdd(FSumTo(v, n - 1), v[n])

FSum(v) == FSumTo(v, Len(v))

\* np.dot of two vectors.
RECURSIVE FDotTo(_, _, _)
FDotTo(u, v, n) ==
  IF n = 0 THEN Zero ELSE FAdd(FDotTo(u, v, n - 1), FMul(u[n], v[n]))

FDot(u, v) == FDotTo(u, v, Len(u))

\* np.dot(vector, matrix): entry b is the dot product with column b.
VecMat(u, M) ==
  Vec(Len(M[1]), LAMBDA b : FDot(u, Vec(Len(u), LAMBDA a : M[a][b])))

\* ------------------------------------------------------------- inputs
\* The notebook builds its data frame from a literal (15 students, three
\* subjects, three sections).  The cells are run here on every data frame of
\* at most MaxEchantillons students and MaxCellules grades in all, with one
\* or two subjects and every grade in Notes.
MaxEchantillons == 4
MaxCellules == 6
NbVariables == {1, 2}
Notes == {0, 1}

Sections == {"sciences", "litterature", "economie"}

VARIABLES
  pc,                    \* the next code cell to run
  erreur,                \* the uncaught exception that stopped the run, or ""
  donnees,               \* cell 3: the data frame's columns
  sectionUnique, mapSection, sectionNum,
  X, y, Xmoyenne, XecartType, Xnormalise,
  classes, nbClasses, nbEchantillons, probsPrior,
  moyennes, matriceDispersionIntra, covarianceCommune, covarianceCommuneInv,
  covarianceBrute,       \* history: covarianceCommune as line 196 leaves it
  nbInversions,          \* history: calls of np.linalg.inv in cell 9
  nbRegularisations,     \* history: executions of line 209
  scoresDiscriminants,
  nbEcritures,           \* history: assignments to each cell by line 251
  expScores,             \* history: probsPosterior as line 281 leaves it
  probsPosterior, classesPredites, sectionsPredites,
  moyenneGlobale, matriceDispersionInter,
  valeursPropresEig,     \* history: valeursPropres as line 352 leaves it
  vecteursPropresEig,    \* history: vecteursPropres as line 352 leaves it
  idx,
  valeursPropres,
  valeursPropresImag,    \* the imaginary parts of valeursPropres
  vecteursPropresTries,  \* history: vecteursPropres as line 357 leaves it
  nbComposantes, vecteursPropres, ratioVarianceExpliquee, Xprojete

vars == <<pc, erreur, donnees, sectionUnique, mapSection, sectionNum,
          X, y, Xmoyenne, XecartType, Xnormalise,
          classes, nbClasses, nbEchantillons, probsPrior,
          moyennes, matriceDispersionIntra, covarianceCommune,
          covarianceCommuneInv, covarianceBrute, nbInversions,
          nbRegularisations, scoresDiscriminants, nbEcritures, expScores,
          probsPosterior, classesPredites, sectionsPredites,
          moyenneGlobale, matriceDispersionInter, valeursPropresEig,
          vecteursPropresEig, idx, valeursPropres, valeursPropresImag,
          vecteursPropresTries, nbComposantes, vecteursPropres,
          ratioVarianceExpliquee, Xprojete>>

varsCell3 == <<sectionUnique, mapSection, sectionNum>>
varsCell5 == <<X, y, Xmoyenne, XecartType, Xnormalise>>
varsCell7 == <<classes, nbClasses, nbEchantillons, probsPrior>>
varsCell9 == <<moyennes, matriceDispersionIntra, covarianceCommune,
               covarianceCommuneInv, covarianceBrute, nbInversions,
               nbRegularisations>>
varsCell11 == <<scoresDiscriminants, nbEcritures>>
varsCell13 == <<expScores, probsPosterior, classesPredites, sectionsPredites>>
varsCell15 == <<moyenneGlobale, matriceDispersionInter, valeursPropresEig,
                vecteursPropresEig, idx, valeursPropres, valeursPropresImag,
                vecteursPropresTries, nbComposantes, vecteursPropres,
                ratioVarianceExpliquee, Xprojete>>

Init ==
  /\ pc = "cell3"
  /\ erreur = ""
  /\ \E n \in 1..MaxEchantillons, d \in NbVariables :
       /\ n * d <= MaxCellules
       /\ \E sec \in [1..n -> Sections], notes \in [1..n -> [1..d -> Notes]] :
            donnees = [section |-> sec, notes |-> notes]
  /\ sectionUnique = <<>> /\ mapSection = <<>> /\ sectionNum = <<>>
  /\ X = <<>> /\ y = <<>> /\ Xmoyenne = <<>> /\ XecartType = <<>>
  /\ Xnormalise = <<>>
  /\ classes = <<>> /\ nbClasses = 0 /\ nbEchantillons = 0 /\ probsPrior = <<>>
  /\ moyennes = <<>> /\ matriceDispersionIntra = <<>>
  /\ covarianceCommune = <<>> /\ covarianceCommuneInv = <<>>
  /\ covarianceBrute = <<>> /\ nbInversions = 0 /\ nbRegularisations = 0
  /\ scoresDiscriminants = <<>> /\ nbEcritures = <<>>
  /\ expScores = <<>> /\ probsPosterior = <<>>
  /\ classesPredites = <<>> /\ sectionsPredites = <<>>
  /\ moyenneGlobale = <<>> /\ matriceDispersionInter = <<>>
  /\ valeursPropresEig = <<>> /\ vecteursPropresEig = <<>> /\ idx = <<>>
  /\ valeursPropres = <<>> /\ valeursPropresImag = <<>>
  /\ vecteursPropresTries = <<>> /\ nbComposantes = 0
  /\ vecteursPropres = <<>> /\ ratioVarianceExpliquee = <<>>
  /\ Xprojete = <<>>

\* ------------------------------------------------ cell 3: class codes
\* pandas Series.unique(): the distinct values in order of first appearance.
UniqueAdd(u, x) ==
  IF \E i \in 1..Len(u) : u[i] = x THEN u ELSE Append(u, x)

RECURSIVE Unique(_, _)
Unique(col, n) ==
  IF n = 0 THEN <<>> ELSE UniqueAdd(Unique(col, n - 1), col[n])

\* {section: i for i, section in enumerate(sectionUnique)}
MapSection(su) == [sec \in {su[i] : i \in 1..Len(su)} |->
                     (CHOOSE i \in 1..Len(su) : su[i] = sec) - 1]

Cell3 ==
  /\ pc = "cell3" /\ erreur = ""
  /\ sectionUnique' = Unique(donnees.section, Len(donnees.section))
  /\ mapSection' = MapSection(sectionUnique')
  /\ sectionNum' = Vec(Len(donnees.section),
                       LAMBDA i : mapSection'[donnees.section[i]])
  /\ pc' = "cell5"
  /\ UNCHANGED <<erreur, donnees, varsCell5, varsCell7, varsCell9,
                 varsCell11, varsCell13,
                 varsCell15>>

\* ------------------------------------------- cell 5: standardisation
\* np.mean(M, axis=0)[j] of a matrix of floats.
ColMean(M, j) ==
  FDiv(FSum(Vec(Len(M), LAMBDA i : M[i][j])), FromInt(Len(M)))

\* (M[:, j] - mu) ** 2
SquaredDeviations(M, j, mu) ==
  Vec(Len(M), LAMBDA i : FMul(FSub(M[i][j], mu), FSub(M[i][j], mu)))

\* np.std(M, axis=0)[j]: the square root of the mean squared deviation.
ColStd(M, j) ==
  FSqrt(FDiv(FSum(SquaredDeviations(M, j, ColMean(M, j))), FromInt(Len(M))))

\* The float64 array of a table of integer grades.
Flottants(T) == Mat(Len(T), Len(T[1]), LAMBDA i, j : FromInt(T[i][j]))

ColMeans(Xf) == Vec(Len(Xf[1]), LAMBDA j : ColMean(Xf, j))
ColStds(Xf) == Vec(Len(Xf[1]), LAMBDA j : ColStd(Xf, j))

\* Line 110: (X - Xmoyenne) / XecartType
Standardise(Xf, mu, sd) ==
  Mat(Len(Xf), Len(Xf[1]), LAMBDA i, j : FDiv(FSub(Xf[i][j], mu[j]), sd[j]))

Cell5 ==
  /\ pc = "cell5" /\ erreur = ""
  /\ X' = donnees.notes
  /\ y' = sectionNum
  /\ Xmoyenne' = ColMeans(Flottants(X'))
  /\ XecartType' = ColStds(Flottants(X'))
  /\ Xnormalise' = Standardise(Flottants(X'), Xmoyenne', XecartType')
  /\ pc' = "cell7"
  /\ UNCHANGED <<erreur, donnees, varsCell3, varsCell7, varsCell9,
                 varsCell11, varsCell13,
                 varsCell15>>

\* ---------------------------------------------------- cell 7: priors
\* np.unique(y): the distinct values, sorted.
SetMin(S) == CHOOSE a \in S : \A b \in S : a <= b

RECURSIVE SortedSeq(_)
SortedSeq(S) ==
  IF S = {} THEN <<>> ELSE <<SetMin(S)>> \o SortedSeq(S \ {SetMin(S)})

\* The distinct values in decreasing order.
NpUniqueDecroissant(v) ==
  [k \in 1..Cardinality({v[i] : i \in 1..Len(v)}) |->
     SortedSeq({v[i] : i \in 1..Len(v)})
       [Cardinality({v[i] : i \in 1..Len(v)}) + 1 - k]]

NpUnique(v) == SortedSeq({v[i] : i \in 1..Len(v)})

\* A count that misses the first observation.
CountEqSaufPremier(v, cls) == Cardinality({i \in 2..Len(v) : v[i] = cls})

\* np.sum(y == cls)
CountEq(v, cls) == Cardinality({i \in 1..Len(v) : v[i] = cls})

\* Line 148.
Prior(v, cls, n) == FDiv(FromInt(CountEq(v, cls)), FromInt(n))

Cell7 ==
  /\ pc = "cell7" /\ erreur = ""
  /\ classes' = NpUnique(y)
  /\ nbClasses' = Len(classes')
  /\ nbEchantillons' = Len(y)
  /\ probsPrior' = Vec(nbClasses', LAMBDA i : Prior(y, classes'[i], nbEchantillons'))
  /\ pc' = "cell9"
  /\ UNCHANGED <<erreur, donnees, varsCell3, varsCell5, varsCell9,
                 varsCell11, varsCell13,
                 varsCell15>>

\* --------------------------- cell 9: class means, pooled covariance
\* The positions i with v[i] = cls, in order: the mask y == cls.
Masque(v, cls) == SelectSeq(Vec(Len(v), LAMBDA i : i), LAMBDA i : v[i] = cls)

\* np.mean(Xn[rows], axis=0)
MoyenneLignes(Xn, rows) ==
  Vec(Len(Xn[1]), LAMBDA j :
    FDiv(FSum(Vec(Len(rows), LAMBDA r : Xn[rows[r]][j])), FromInt(Len(rows))))

\* Line 179: np.mean(Xnormalise[y == cls], axis=0)
MoyenneClasse(Xn, v, cls) == MoyenneLignes(Xn, Masque(v, cls))

\* Line 191: Xnormalise[y == cls] - moyennes[i]
Centrees(Xn, rows, mu) ==
  Mat(Len(rows), Len(Xn[1]), LAMBDA r, j : FSub(Xn[rows[r]][j], mu[j]))

Colonne(M, a) == Vec(Len(M), LAMBDA r : M[r][a])

\* Line 192: np.dot(M.T, M)
Gram(M) ==
  Mat(Len(M[1]), Len(M[1]), LAMBDA a, b : FDot(Colonne(M, a), Colonne(M, b)))

\* Lines 189-192: np.dot(donneesCentrees.T, donneesCentrees) of one class.
DispersionClasse(Xn, v, cls, mu) == Gram(Centrees(Xn, Masque(v, cls), mu))

MatAdd(A, B) == Mat(Len(A), Len(A[1]), LAMBDA a, b : FAdd(A[a][b], B[a][b]))

\* Lines 187-192: the scatter accumulated over the first i classes.
RECURSIVE DispersionIntra(_, _, _, _, _)
DispersionIntra(Xn, v, cl, mus, i) ==
  IF i = 0 THEN Mat(Len(Xn[1]), Len(Xn[1]), LAMBDA a, b : Zero)
  ELSE MatAdd(DispersionIntra(Xn, v, cl, mus, i - 1),
              DispersionClasse(Xn, v, cl[i], mus[i]))

\* A division whose divisor grows from one column to the next.
CovarianceParColonne(S, n, k) ==
  Mat(Len(S), Len(S), LAMBDA a, b : FDiv(S[a][b], FromInt(n - k + b - 1)))

\* Line 196: division by the python int nbEchantillons - nbClasses.
CovariancePooled(S, n, k) ==
  Mat(Len(S), Len(S), LAMBDA a, b : FDiv(S[a][b], FromInt(n - k)))

\* The literal 1e-6.
Epsilon == Lit(562949953, -49)

\* Line 209: covarianceCommune += np.eye(d) * 1e-6
Regularise(C) ==
  Mat(Len(C), Len(C), LAMBDA a, b :
        FAdd(C[a][b], FMul(IF a = b THEN One ELSE Zero, Epsilon)))

\* np.linalg.inv: LAPACK gesv, an LU factorisation with partial pivoting
\* followed by the triangular solves with the identity as right-hand side.
\* The pivot search (idamax) compares magnitudes; builds differ on whether a
\* NaN wins the comparison (nanMax) or never does.
\* Whether the magnitude cand replaces the magnitude cur in the search.
PivotBetter(cand, cur, nanMax) ==
  FGt(cand, cur) \/ (nanMax /\ IsNaN(cand) /\ ~IsNaN(cur))

RECURSIVE PivotScan(_, _, _, _, _)
PivotScan(M, j, r, best, nanMax) ==
  IF r > Len(M) THEN best
  ELSE PivotScan(M, j, r + 1,
                 IF PivotBetter(FAbs(M[r][j]), FAbs(M[best][j]), nanMax)
                 THEN r ELSE best,
                 nanMax)

PivotRow(M, j, nanMax) == PivotScan(M, j, j + 1, j, nanMax)

SwapRows(M, a, b) == [M EXCEPT ![a] = M[b], ![b] = M[a]]

\* row minus l times the pivot row, from column j on.
EliminateRow(row, piv, j, l) ==
  Vec(Len(row), LAMBDA c :
    IF c < j THEN row[c]
    ELSE IF c = j THEN Zero
    ELSE FSub(row[c], FMul(l, piv[c])))

Eliminate(M, j) ==
  Vec(Len(M), LAMBDA r :
    IF r <= j THEN M[r] ELSE EliminateRow(M[r], M[j], j, FDiv(M[r][j], M[j][j])))

\* A pivot that is exactly zero makes gesv report a singular matrix.
RECURSIVE LU(_, _, _)
RECURSIVE LUPivot(_, _, _, _)
LU(M, j, nanMax) ==
  IF j > Len(M) THEN [singular |-> FALSE, m |-> M]
  ELSE LUPivot(M, j, nanMax, PivotRow(M, j, nanMax))

\* The step of column j with the pivot in row p.
LUPivot(M, j, nanMax, p) ==
  IF IsZero(M[p][j]) THEN [singular |-> TRUE, m |-> M]
  ELSE LU(Eliminate(SwapRows(M, j, p), j), j + 1, nanMax)

RECURSIVE BackSub(_, _, _, _)
RECURSIVE BackSubStep(_, _, _, _, _)
BackSub(U, b, k, x) ==
  IF k = 0 THEN x ELSE BackSubStep(U, b, k, x, FDiv(b[k], U[k][k]))

\* Unknown k has the value xk.
BackSubStep(U, b, k, x, xk) ==
  BackSub(U,
          Vec(Len(b), LAMBDA i :
            IF i < k THEN FSub(b[i], FMul(xk, U[i][k])) ELSE b[i]),
          k - 1, [x EXCEPT ![k] = xk])

\* A with the identity to its right.
Augmented(A) ==
  Mat(Len(A), 2 * Len(A), LAMBDA i, j :
    IF j <= Len(A) THEN A[i][j] ELSE IF j - Len(A) = i THEN One ELSE Zero)

Transpose(M) == Mat(Len(M[1]), Len(M), LAMBDA a, b : M[b][a])

\* The solutions of U x = c for the d right-hand columns c of U, as rows.
SolveColumns(U, d) ==
  Vec(d, LAMBDA c :
    BackSub(U, Vec(d, LAMBDA i : U[i][d + c]), d, Vec(d, LAMBDA i : Zero)))

InvFromLU(lu) ==
  IF lu.singular THEN [ok |-> FALSE, inv |-> <<>>]
  ELSE [ok |-> TRUE, inv |-> Transpose(SolveColumns(lu.m, Len(lu.m)))]

\* [ok |-> FALSE] stands for np.linalg.LinAlgError("Singular matrix").
NpLinalgInv(A, nanMax) == InvFromLU(LU(Augmented(A), 1, nanMax))

\* The outcome of the handler: the second inversion, of reg.
ProtocolSecond(reg, second) ==
  IF second.ok
  THEN [cov |-> reg, inv |-> second.inv, assigned |-> TRUE,
        inversions |-> 2, regularisations |-> 1, exc |-> ""]
  ELSE [cov |-> reg, inv |-> <<>>, assigned |-> FALSE,
        inversions |-> 2, regularisations |-> 1, exc |-> "LinAlgError"]

\* Lines 206-211: the except clause.
ProtocolHandler(reg, nanMax) == ProtocolSecond(reg, NpLinalgInv(reg, nanMax))

\* A handler that regularises and gives up without a second inversion.
SansReprise(C, nanMax, first) ==
  IF first.ok
  THEN [cov |-> C, inv |-> first.inv, assigned |-> TRUE,
        inversions |-> 1, regularisations |-> 0, exc |-> ""]
  ELSE [cov |-> Regularise(C), inv |-> <<>>, assigned |-> FALSE,
        inversions |-> 1, regularisations |-> 1, exc |-> "LinAlgError"]

\* Lines 202-213 after the first inversion, with its outcome first.
ProtocolFirst(C, nanMax, first) ==
  IF first.ok
  THEN [cov |-> C, inv |-> first.inv, assigned |-> TRUE,
        inversions |-> 1, regularisations |-> 0, exc |-> ""]
  ELSE ProtocolHandler(Regularise(C), nanMax)

\* Lines 202-213: the try / except / else statement.  The result names the
\* covariance and inverse left behind, the calls of inv and of line 209, and
\* the exception that leaves the cell, if any.
InverseProtocol(C, nanMax) == ProtocolFirst(C, nanMax, NpLinalgInv(C, nanMax))

\* The builds only differ on a matrix that holds a NaN.
PivotChoices(C) ==
  IF \E a \in 1..Len(C), b \in 1..Len(C) : IsNaN(C[a][b]) THEN BOOLEAN ELSE {FALSE}

\* The assignments of lines 202-213 and the way the cell is left.
Cell9Inverse(res) ==
  /\ covarianceCommune' = res.cov
  /\ covarianceCommuneInv' = res.inv
  /\ nbInversions' = res.inversions
  /\ nbRegularisations' = res.regularisations
  /\ erreur' = res.exc
  /\ pc' = IF res.exc = "" THEN "cell11" ELSE pc

Cell9 ==
  /\ pc = "cell9" /\ erreur = ""
  /\ moyennes' = Vec(nbClasses, LAMBDA i : MoyenneClasse(Xnormalise, y, classes[i]))
  /\ matriceDispersionIntra' =
       DispersionIntra(Xnormalise, y, classes, moyennes', nbClasses)
  /\ covarianceBrute' =
       CovariancePooled(matriceDispersionIntra', nbEchantillons, nbClasses)
  /\ \E nanMax \in PivotChoices(covarianceBrute') :
       Cell9Inverse(InverseProtocol(covarianceBrute', nanMax))
  /\ UNCHANGED <<donnees, varsCell3, varsCell5, varsCell7, varsCell11, varsCell13,
                 varsCell15>>

\* ---------------------------------------- cell 11: discriminant scores
\* A score whose quadratic term has lost its factor 0.5.
ScoreSansDemi(Xn, Sinv, mus, priors, i, k) ==
  LET terme1 == FDot(VecMat(Xn[i], Sinv), mus[k])
      terme2 == FDot(VecMat(mus[k], Sinv), mus[k])
      terme3 == IF FGt(priors[k], Zero) THEN FLog(priors[k]) ELSE Inf(-1)
  IN FAdd(FSub(terme1, terme2), terme3)

\* Lines 242-251 for observation i and class position k (both from 1).
Score(Xn, Sinv, mus, priors, i, k) ==
  LET terme1 == FDot(VecMat(Xn[i], Sinv), mus[k])
      terme2 == FMul(Half, FDot(VecMat(mus[k], Sinv), mus[k]))
      terme3 == IF FGt(priors[k], Zero) THEN FLog(priors[k]) ELSE Inf(-1)
  IN FAdd(FSub(terme1, terme2), terme3)

\* The t-th assignment of the double loop (t from 0) goes to row and column:
LoopRow(t, k) == (t \div k) + 1
LoopCol(t, k) == (t % k) + 1

\* Lines 237-251: the matrix and the number of assignments to each of its
\* cells after the first t iterations of the double loop.
\* Line 251 for the cell (i, c), on the arrays prev.
ScoresWrite(prev, i, c, score) ==
  [scores |-> [prev.scores EXCEPT ![i][c] = score],
   ecritures |-> [prev.ecritures EXCEPT ![i][c] = @ + 1]]

RECURSIVE ScoresLoop(_, _, _, _, _, _, _)
ScoresLoop(Xn, Sinv, mus, priors, n, k, t) ==
  IF t = 0
  THEN [scores |-> Mat(n, k, LAMBDA i, c : Zero),
        ecritures |-> Mat(n, k, LAMBDA i, c : 0)]
  ELSE ScoresWrite(ScoresLoop(Xn, Sinv, mus, priors, n, k, t - 1),
                   LoopRow(t - 1, k), LoopCol(t - 1, k),
                   Score(Xn, Sinv, mus, priors, LoopRow(t - 1, k), LoopCol(t - 1, k)))

Cell11Scores(res) ==
  /\ scoresDiscriminants' = res.scores
  /\ nbEcritures' = res.ecritures

Cell11 ==
  /\ pc = "cell11" /\ erreur = ""
  /\ Cell11Scores(ScoresLoop(Xnormalise, covarianceCommuneInv, moyennes,
                             probsPrior, nbEchantillons, nbClasses,
                             nbEchantillons * nbClasses))
  /\ pc' = "cell13"
  /\ UNCHANGED <<erreur, donnees, varsCell3, varsCell5, varsCell7, varsCell9,
                 varsCell13,
                 varsCell15>>

\* ------------------------------- cell 13: posteriors and predictions
\* np.argmax of a row: the first maximum, a NaN counting as the maximum
\* (index from 0).
\* A scan that keeps the last of several equal maxima.
RECURSIVE ArgmaxScanDernier(_, _, _)
ArgmaxScanDernier(v, i, best) ==
  IF i > Len(v) \/ IsNaN(v[best]) THEN best
  ELSE ArgmaxScanDernier(v, i + 1, IF ~FLt(v[i], v[best]) THEN i ELSE best)

RECURSIVE ArgmaxScan(_, _, _)
ArgmaxScan(v, i, best) ==
  IF i > Len(v) \/ IsNaN(v[best]) THEN best
  ELSE ArgmaxScan(v, i + 1, IF ~FLe(v[i], v[best]) THEN i ELSE best)

NpArgmax(v) == ArgmaxScan(v, 2, 1) - 1

\* Line 281: the argument of np.exp for entry (i, k).
Exposant(scores, i, k) == scores[i][k]

\* Line 284: division of each row by its sum.
DivideRows(E, sums) ==
  Mat(Len(E), Len(E[1]), LAMBDA i, k : FDiv(E[i][k], sums[i]))

Normalise(E) == DivideRows(E, Vec(Len(E), LAMBDA i : FSum(E[i])))

Cell13 ==
  /\ pc = "cell13" /\ erreur = ""
  /\ expScores' = Mat(nbEchantillons, nbClasses, LAMBDA i, k :
                        FExp(Exposant(scoresDiscriminants, i, k)))
  /\ probsPosterior' = Normalise(expScores')
  /\ classesPredites' = Vec(nbEchantillons, LAMBDA i : NpArgmax(scoresDiscriminants[i]))
  /\ sectionsPredites' = Vec(nbEchantillons, LAMBDA i :
                               sectionUnique[classesPredites'[i] + 1])
  /\ pc' = "cell15"
  /\ UNCHANGED <<erreur, donnees, varsCell3, varsCell5, varsCell7, varsCell9,
                 varsCell11,
                 varsCell15>>

\* ------------------------------------------- cell 15: discriminant axes
\* Line 347: nbEchantillonsClasse * np.outer(diffMoyenne, diffMoyenne), with
\* diffMoyenne = moyennes[i] - moyenneGlobale (line 345) in diff.
OuterPondere(n, diff) ==
  Mat(Len(diff), Len(diff), LAMBDA a, b :
        FMul(FromInt(n), FMul(diff[a], diff[b])))

\* Lines 340-347: the between-class scatter accumulated over the first i
\* classes.
RECURSIVE DispersionInter(_, _, _, _, _)
DispersionInter(v, cl, mus, globale, i) ==
  IF i = 0 THEN Mat(Len(globale), Len(globale), LAMBDA a, b : Zero)
  ELSE MatAdd(DispersionInter(v, cl, mus, globale, i - 1),
              OuterPondere(CountEq(v, cl[i]),
                           Vec(Len(globale), LAMBDA j :
                                 FSub(mus[i][j], globale[j]))))

\* np.dot of two matrices.
MatMul(A, B) ==
  Mat(Len(A), Len(B[1]), LAMBDA a, b : FDot(A[a], Colonne(B, b)))

\* np.linalg.eig refuses an array that holds a NaN or an infinity.
ToutFini(M) == \A a \in 1..Len(M) : \A b \in 1..Len(M[a]) : IsFinite(M[a][b])

\* Fortran SIGN(a, b), MAX and MIN.
FSign(a, b) == IF b.s = 1 THEN FAbs(a) ELSE FNeg(FAbs(a))
FMax(a, b) == IF FGe(a, b) THEN a ELSE b
FMin(a, b) == IF FLe(a, b) THEN a ELSE b

\* LAPACK dlamch('P'), the relative spacing of the format, and the
\* threshold smlnum of dlahqr.
Ulp == Round(1, 1, 1 - MantBits, FALSE)
Smlnum == Round(1, 1, DoubleMinExp + 52 + MantBits, FALSE)

\* LAPACK dlapy2: sqrt(p^2 + q^2) without needless overflow.
Dlapy2Ordered(w, z) ==
  IF IsZero(z) THEN w
  ELSE FMul(w, FSqrt(FAdd(One, FMul(FDiv(z, w), FDiv(z, w)))))

Dlapy2(p, q) == Dlapy2Ordered(FMax(FAbs(p), FAbs(q)), FMin(FAbs(p), FAbs(q)))

\* The Schur factorisation of a real 2 x 2 matrix (LAPACK dlanv2):
\*   (a b; c d) = (cs -sn; sn cs) (a' b'; c' d') (cs sn; -sn cs)
\* with c' = 0 when the eigenvalues are real, and a' = d', b' c' < 0 when
\* they are a complex pair.
Schur(a, b, c, d, cs, sn) ==
  [a |-> a, b |-> b, c |-> c, d |-> d, cs |-> cs, sn |-> sn]

\* Real eigenvalues: the rotation that zeroes c.
Dlanv2Rotation(a, b, c, d, z, tau) ==
  Schur(a, FSub(b, c), Zero, d, FDiv(z, tau), FDiv(c, tau))

Dlanv2Reel(b, c, d, bcmax, bcmis, z) ==
  Dlanv2Rotation(FAdd(d, z), b, c, FSub(d, FMul(FDiv(bcmax, z), bcmis)),
                 z, Dlapy2(c, z))

\* Equal diagonal and off-diagonal entries of one sign: real eigenvalues,
\* reduced to upper triangular form by a second rotation (cs1, sn1).
Dlanv2Second(temp, b, c, cs, sn, p, cs1, sn1) ==
  Schur(FAdd(temp, p), FSub(b, c), Zero, FSub(temp, p),
        FSub(FMul(cs, cs1), FMul(sn, sn1)),
        FAdd(FMul(cs, sn1), FMul(sn, cs1)))

Dlanv2Racines(temp, b, c, cs, sn, sab, sac, tau) ==
  Dlanv2Second(temp, b, c, cs, sn, FSign(FMul(sab, sac), c),
               FMul(sab, tau), FMul(sac, tau))

\* The matrix (temp b; c temp) left by the first rotation.
Dlanv2Egal(temp, b, c, cs, sn) ==
  IF IsZero(c) THEN Schur(temp, b, c, temp, cs, sn)
  ELSE IF IsZero(b) THEN Schur(temp, FNeg(c), Zero, temp, FNeg(sn), cs)
  ELSE IF b.s = c.s
  THEN Dlanv2Racines(temp, b, c, cs, sn, FSqrt(FAbs(b)), FSqrt(FAbs(c)),
                     FDiv(One, FSqrt(FAbs(FAdd(b, c)))))
  ELSE Schur(temp, b, c, temp, cs, sn)

\* (a b; c d) rotated by (cs, sn) on both sides, the diagonal then made equal.
Dlanv2Tourne(aa, bb, cc, dd, cs, sn) ==
  Dlanv2Egal(FMul(Half, FAdd(FAdd(FMul(aa, cs), FMul(cc, sn)),
                             FAdd(FMul(FNeg(bb), sn), FMul(dd, cs)))),
             FAdd(FMul(bb, cs), FMul(dd, sn)),
             FAdd(FMul(FNeg(aa), sn), FMul(cc, cs)),
             cs, sn)

Dlanv2Produit(a, b, c, d, cs, sn) ==
  Dlanv2Tourne(FAdd(FMul(a, cs), FMul(b, sn)),
               FAdd(FMul(FNeg(a), sn), FMul(b, cs)),
               FAdd(FMul(c, cs), FMul(d, sn)),
               FAdd(FMul(FNeg(c), sn), FMul(d, cs)),
               cs, sn)

Dlanv2Sinus(a, b, c, d, p, sigma, tau, cs) ==
  Dlanv2Produit(a, b, c, d, cs,
                FMul(FNeg(FDiv(p, FMul(tau, cs))), FSign(One, sigma)))

\* Complex or almost equal real eigenvalues: sigma = b + c and
\* tau = dlapy2(sigma, a - d).
Dlanv2Tau(a, b, c, d, p, sigma, tau) ==
  Dlanv2Sinus(a, b, c, d, p, sigma, tau,
              FSqrt(FMul(Half, FAdd(One, FDiv(FAbs(sigma), tau)))))

Dlanv2Z(a, b, c, d, temp, p, bcmax, bcmis, scale, z) ==
  IF FGe(z, FMul(FromInt(4), Ulp))
  THEN Dlanv2Reel(b, c, d, bcmax, bcmis,
                  FAdd(p, FSign(FMul(FSqrt(scale), FSqrt(z)), p)))
  ELSE Dlanv2Tau(a, b, c, d, p, FAdd(b, c), Dlapy2(FAdd(b, c), temp))

Dlanv2Scale(a, b, c, d, temp, p, bcmax, bcmis, scale) ==
  Dlanv2Z(a, b, c, d, temp, p, bcmax, bcmis, scale,
          FAdd(FMul(FDiv(p, scale), p), FMul(FDiv(bcmax, scale), bcmis)))

Dlanv2General(a, b, c, d, temp, p, bcmax, bcmis) ==
  Dlanv2Scale(a, b, c, d, temp, p, bcmax, bcmis, FMax(FAbs(p), bcmax))

Dlanv2(a, b, c, d) ==
  IF IsZero(c) THEN Schur(a, b, c, d, One, Zero)
  ELSE IF IsZero(b) THEN Schur(d, FNeg(c), Zero, a, Zero, One)
  ELSE IF IsZero(FSub(a, d)) /\ b.s # c.s THEN Schur(a, b, c, d, One, Zero)
  ELSE Dlanv2General(a, b, c, d, FSub(a, d), FMul(Half, FSub(a, d)),
                     FMax(FAbs(b), FAbs(c)),
                     FMul(FMin(FAbs(b), FAbs(c)),
                          IF b.s = c.s THEN One ELSE FNeg(One)))

\* The unit vector along <<p, q>>: dtrevc scales the entry of largest
\* magnitude to one, dgeev then divides by the Euclidean norm (dnrm2).
Dnrm2(p, q) == FSqrt(FAdd(FMul(p, p), FMul(q, q)))
Unitaire(p, q) == <<FDiv(p, Dnrm2(p, q)), FDiv(q, Dnrm2(p, q))>>
Normalise2(p, q) ==
  Unitaire(FMul(p, FDiv(One, FMax(FAbs(p), FAbs(q)))),
           FMul(q, FDiv(One, FMax(FAbs(p), FAbs(q)))))

\* dlaln2 inside dtrevc: a divisor below smin is replaced by smin.
Diviseur(csr, smin) == IF FLt(FAbs(csr), smin) THEN smin ELSE csr

\* The entry x1 of the eigenvector <<x1, 1>> of (a b; 0 d) for d.
Dtrevc(a, b, d) ==
  FDiv(FNeg(b), Diviseur(FSub(a, d), FMax(FMul(Ulp, FAbs(d)), Smlnum)))

\* The eigenvectors of Q T Q', columns <<u1, u2>> and <<v1, v2>>, where
\* T = (a b; 0 d), Q = (cs -sn; sn cs) and the second eigenvector of T is
\* <<x1, 1>>.
VecteursReels(cs, sn, x1) ==
  <<Normalise2(cs, sn),
    Normalise2(FAdd(FNeg(sn), FMul(x1, cs)), FAdd(cs, FMul(x1, sn)))>>

\* The eigen-decomposition of Q (a b; 0 d) Q': w the eigenvalues, wi their
\* imaginary parts, v the matrix whose column j belongs to w[j].
EigTriangulaire(a, b, d, cs, sn) ==
  [w |-> <<a, d>>, wi |-> <<Zero, Zero>>,
   v |-> Transpose(VecteursReels(cs, sn, Dtrevc(a, b, d)))]

\* A Schur form with c # 0 holds the complex pair a +- i sqrt|b| sqrt|c|.
\* The complex eigenvectors of such a pair are not modelled: no run of the
\* model reaches one.
EigSchur(s) ==
  IF IsZero(s.c) THEN EigTriangulaire(s.a, s.b, s.d, s.cs, s.sn)
  ELSE [w |-> <<s.a, s.d>>,
        wi |-> <<FMul(FSqrt(FAbs(s.b)), FSqrt(FAbs(s.c))),
                 FNeg(FMul(FSqrt(FAbs(s.b)), FSqrt(FAbs(s.c))))>>,
        v |-> <<>>]

\* The test of dlahqr for a negligible subdiagonal entry h21.
PetitRelatif(ab, ba, aa, bb) ==
  FLe(FMul(ba, FDiv(ab, FAdd(aa, ab))),
      FMax(Smlnum, FMul(Ulp, FMul(bb, FDiv(aa, FAdd(aa, ab))))))

Negligeable(h11, h12, h21, h22) ==
  \/ FLe(FAbs(h21), Smlnum)
  \/ /\ FLe(FAbs(h21), FMul(Ulp, FAdd(FAbs(h11), FAbs(h22))))
     /\ PetitRelatif(FMax(FAbs(h21), FAbs(h12)), FMin(FAbs(h21), FAbs(h12)),
                     FMax(FAbs(h22), FAbs(FSub(h11, h22))),
                     FMin(FAbs(h22), FAbs(FSub(h11, h22))))

\* LAPACK dgeev on a 2 x 2 matrix.  dgebal moves a row without
\* off-diagonal entry to the bottom (dgebak exchanges the rows of the
\* eigenvectors back); its scaling by powers of two, which only changes the
\* roundoff of the result, is left out.
Dgeev2(M) ==
  IF IsZero(M[2][1]) THEN EigTriangulaire(M[1][1], M[1][2], M[2][2], One, Zero)
  ELSE IF IsZero(M[1][2])
  THEN [EigTriangulaire(M[2][2], M[2][1], M[1][1], One, Zero)
          EXCEPT !.v = <<@[2], @[1]>>]
  ELSE IF Negligeable(M[1][1], M[1][2], M[2][1], M[2][2])
  THEN EigTriangulaire(M[1][1], M[1][2], M[2][2], One, Zero)
  ELSE EigSchur(Dlanv2(M[1][1], M[1][2], M[2][1], M[2][2]))

\* np.linalg.eig of a 1 x 1 or 2 x 2 array without NaN or infinity.
NpLinalgEig(M) ==
  IF Len(M) = 1
  THEN [w |-> <<M[1][1]>>, wi |-> <<Zero>>, v |-> <<<<One>>>>]
  ELSE Dgeev2(M)

\* The order of numpy's sort on eigenvalues: by real part, then by imaginary
\* part, NaN last.
NpLess(w, wi, i, j) ==
  \/ FLt(w[i], w[j])
  \/ FEq(w[i], w[j]) /\ FLt(wi[i], wi[j])
  \/ IsNaN(w[j]) /\ ~IsNaN(w[i])

\* One step of the insertion sort numpy runs on a short array: position x
\* moves left past the positions of greater values.
RECURSIVE Inserer(_, _, _, _)
Inserer(w, wi, s, x) ==
  IF s = <<>> \/ ~NpLess(w, wi, x, s[Len(s)]) THEN Append(s, x)
  ELSE Append(Inserer(w, wi, SubSeq(s, 1, Len(s) - 1), x), s[Len(s)])

\* ndarray.argsort(), as positions from 1.
RECURSIVE Argsort(_, _, _)
Argsort(w, wi, n) ==
  IF n = 0 THEN <<>> ELSE Inserer(w, wi, Argsort(w, wi, n - 1), n)

\* s[::-1]
Renverse(s) == Vec(Len(s), LAMBDA i : s[Len(s) + 1 - i])

\* Line 355: valeursPropres.argsort()[::-1], positions from 0.
IdxDecroissant(w, wi) ==
  Vec(Len(w), LAMBDA j : Renverse(Argsort(w, wi, Len(w)))[j] - 1)

\* Line 360 with the class count itself in place of nbClasses - 1.
NbComposantesSansMoinsUn(k, d) == IF k < d THEN k ELSE d

\* Line 360: min(nbClasses - 1, X.shape[1])
NbComposantes(k, d) == IF k - 1 < d THEN k - 1 ELSE d

\* v[ix], M[:, ix] and M[:, :m]
Prendre(v, ix) == Vec(Len(ix), LAMBDA j : v[ix[j] + 1])

\* The columns left where the eigensolver put them.
SansPermutation(M, ix) == M

PrendreColonnes(M, ix) == Vec(Len(M), LAMBDA i : Prendre(M[i], ix))
Tronque(M, m) == Vec(Len(M), LAMBDA i : SubSeq(M[i], 1, m))

\* Lines 352-383 once np.linalg.eig has returned e.
Cell15Axes(e) ==
  /\ valeursPropresEig' = e.w
  /\ vecteursPropresEig' = e.v
  /\ idx' = IdxDecroissant(e.w, e.wi)
  /\ valeursPropres' = Prendre(e.w, idx')
  /\ valeursPropresImag' = Prendre(e.wi, idx')
  /\ vecteursPropresTries' = PrendreColonnes(e.v, idx')
  /\ nbComposantes' = NbComposantes(nbClasses, Len(X[1]))
  /\ vecteursPropres' = Tronque(vecteursPropresTries', nbComposantes')
  /\ ratioVarianceExpliquee' =
       Vec(nbComposantes', LAMBDA j :
             FDiv(valeursPropres'[j], FSum(valeursPropres')))
  /\ Xprojete' = MatMul(Xnormalise, vecteursPropres')
  /\ erreur' = ""
  /\ pc' = "cell17"

\* np.linalg.eig raises LinAlgError before any assignment of line 352.
Cell15Refus ==
  /\ erreur' = "LinAlgError"
  /\ pc' = pc
  /\ UNCHANGED <<valeursPropresEig, vecteursPropresEig, idx, valeursPropres,
                 valeursPropresImag, vecteursPropresTries, nbComposantes,
                 vecteursPropres, ratioVarianceExpliquee, Xprojete>>

Cell15Eig(produit) ==
  IF ToutFini(produit) THEN Cell15Axes(NpLinalgEig(produit)) ELSE Cell15Refus

Cell15 ==
  /\ pc = "cell15" /\ erreur = ""
  /\ moyenneGlobale' = ColMeans(Xnormalise)
  /\ matriceDispersionInter' =
       DispersionInter(y, classes, moyennes, moyenneGlobale', nbClasses)
  /\ Cell15Eig(MatMul(covarianceCommuneInv, matriceDispersionInter'))
  /\ UNCHANGED <<donnees, varsCell3, varsCell5, varsCell7, varsCell9,
                 varsCell11, varsCell13>>

Next == Cell3 \/ Cell5 \/ Cell7 \/ Cell9 \/ Cell11 \/ Cell13 \/ Cell15

Spec == Init /\ [][Next]_vars

\* ======================================================== properties
\* The cells that have run, read off the position of the run.
PriorsFaits == pc \in {"cell9", "cell11", "cell13", "cell15", "cell17"}
CovarianceFaite == pc \in {"cell11", "cell13", "cell15", "cell17"}
ScoresFaits == pc \in {"cell13", "cell15", "cell17"}
PosteriorsFaits == pc \in {"cell15", "cell17"}
AxesFaits == pc = "cell17"

\* The dataset as the data frame holds it.
NbObservations == Len(donnees.section)
NbVars == Len(donnees.notes[1])
SectionsPresentes == {donnees.section[i] : i \in 1..NbObservations}
ColonneConstante(j) ==
  \A i \in 1..NbObservations : donnees.notes[i][j] = donnees.notes[1][j]

\* A dataset the standardisation and the pooled covariance are defined on:
\* no column of identical grades, more observations than classes.
EntreeValide ==
  /\ \A j \in 1..NbVars : ~ColonneConstante(j)
  /\ NbObservations - Cardinality(SectionsPresentes) >= 1

\* |a - b| is at most n units in the last place of 1.
Proche(a, b, n) == FLe(FAbs(FSub(a, b)), Round(1, n, 1 - MantBits, FALSE))

RECURSIVE SommeEntiers(_, _)
SommeEntiers(f, n) == IF n = 0 THEN 0 ELSE SommeEntiers(f, n - 1) + f[n]

\* The observations whose label is the k-th class of np.unique(y).
Effectif(k) ==
  Cardinality({i \in 1..NbObservations :
                 donnees.section[i] = sectionUnique[classes[k] + 1]})

\* C1: once cell 7 has run, probsPrior has one entry per class present in the
\* data, every entry is a non-negative number equal to the quotient of the
\* number of observations carrying that class label by N, the class counts
\* add up to N, and the entries add up to 1 (to the rounding of the
\* nbClasses quotients).
C1_Priors ==
  PriorsFaits =>
    /\ nbEchantillons = NbObservations /\ nbEchantillons >= 1
    /\ nbClasses = Cardinality(SectionsPresentes)
    /\ Len(probsPrior) = nbClasses
    /\ \A k \in 1..nbClasses :
         /\ IsFinite(probsPrior[k])
         /\ FGe(probsPrior[k], Zero)
         /\ probsPrior[k] = FDiv(FromInt(Effectif(k)), FromInt(NbObservations))
    /\ SommeEntiers([k \in 1..nbClasses |-> Effectif(k)], nbClasses) = NbObservations
    /\ Proche(FSum(probsPrior), One, nbClasses)

\* Priors of three classes of unequal size have been estimated.
C1_Witness ==
  /\ PriorsFaits /\ nbClasses = 3 /\ nbEchantillons = 4
  /\ probsPrior[1] # probsPrior[2]

\* C2, for the datasets on which standardisation and pooled covariance are
\* defined (C6 and C7 cover the others): once cell 13 has run, every row of
\* probsPosterior adds up to 1 (to the rounding of its nbClasses quotients)
\* and every entry is a number between 0 and 1.
C2_PosteriorRows ==
  (PosteriorsFaits /\ EntreeValide) =>
    \A i \in 1..nbEchantillons :
      /\ Proche(FSum(probsPosterior[i]), One, nbClasses)
      /\ \A k \in 1..nbClasses :
           FGe(probsPosterior[i][k], Zero) /\ FLe(probsPosterior[i][k], One)

\* C3, for the same datasets: once cell 13 has run, np.argmax of a row of
\* scoresDiscriminants and np.argmax of the same row of probsPosterior are
\* the same index.
C3_ArgmaxAgree ==
  (PosteriorsFaits /\ EntreeValide) =>
    \A i \in 1..nbEchantillons :
      NpArgmax(scoresDiscriminants[i]) = NpArgmax(probsPosterior[i])

\* C4: once cell 13 has run, the predicted class of every observation is a
\* class index whose score no class exceeds, no class of lower index has a
\* score equal to or above it, and the predicted section is the label of
\* that class.
C4_Prediction ==
  PosteriorsFaits =>
    /\ Len(classesPredites) = nbEchantillons
    /\ \A i \in 1..nbEchantillons :
         LET p == classesPredites[i] + 1 IN
         /\ p \in 1..nbClasses
         /\ \A k \in 1..nbClasses :
              ~FGt(scoresDiscriminants[i][k], scoresDiscriminants[i][p])
         /\ \A k \in 1..(p - 1) :
              ~FGe(scoresDiscriminants[i][k], scoresDiscriminants[i][p])
         /\ sectionsPredites[i] = sectionUnique[p]

\* Two classes tie with the highest score of a row and the first of them is
\* predicted; in another row of the same run a later class wins alone.
C4_Witness ==
  /\ PosteriorsFaits /\ EntreeValide
  /\ \E i \in 1..nbEchantillons :
       /\ nbClasses >= 2
       /\ IsFinite(scoresDiscriminants[i][1])
       /\ scoresDiscriminants[i][1] = scoresDiscriminants[i][2]
       /\ classesPredites[i] = 0
  /\ \E i \in 1..nbEchantillons : classesPredites[i] > 0

\* C5: once cell 11 has run, scoresDiscriminants has N rows of K entries,
\* entry (i, k) is the float value of
\*   Xnormalise[i] . covarianceCommuneInv . moyennes[k]
\*     - 0.5 * (moyennes[k] . covarianceCommuneInv . moyennes[k])
\*     + log(probsPrior[k])
\* evaluated in that order, and the loop has assigned every entry once.
C5_ScoreFormula ==
  ScoresFaits =>
    /\ Len(scoresDiscriminants) = nbEchantillons
    /\ Len(nbEcritures) = nbEchantillons
    /\ \A i \in 1..nbEchantillons :
         /\ Len(scoresDiscriminants[i]) = nbClasses
         /\ Len(nbEcritures[i]) = nbClasses
         /\ \A k \in 1..nbClasses :
              /\ nbEcritures[i][k] = 1
              /\ scoresDiscriminants[i][k] =
                   FAdd(FSub(FDot(VecMat(Xnormalise[i], covarianceCommuneInv),
                                  moyennes[k]),
                             FMul(Half, FDot(VecMat(moyennes[k], covarianceCommuneInv),
                                             moyennes[k]))),
                        FLog(probsPrior[k]))

\* Finite scores that differ between the classes of a row have been stored
\* for a dataset of two subjects.
C5_Witness ==
  /\ ScoresFaits /\ EntreeValide /\ NbVars = 2 /\ nbClasses >= 2
  /\ \A i \in 1..nbEchantillons, k \in 1..nbClasses :
       IsFinite(scoresDiscriminants[i][k]) /\ ~IsZero(scoresDiscriminants[i][k])
  /\ \E i \in 1..nbEchantillons :
       scoresDiscriminants[i][1] # scoresDiscriminants[i][2]

\* C6: a dataset with a column of identical grades never gets past the
\* standardisation of cell 5, which ends in DegenerateFeatureError, and no
\* posterior of such a dataset is a NaN.
C6_DegenerateFeature ==
  (\E j \in 1..NbVars : ColonneConstante(j)) =>
    /\ pc \in {"cell3", "cell5"}
    /\ (pc = "cell5" /\ Xnormalise # <<>>) => erreur = "DegenerateFeatureError"
    /\ \A i \in 1..Len(probsPosterior), k \in 1..nbClasses :
         ~IsNaN(probsPosterior[i][k])

\* C7, for the datasets without a column of identical grades (C6 covers the
\* others): a dataset with no more observations than classes never gets
\* past cell 9, whose division by N - K is not executed and which ends in
\* InsufficientSamplesError.
C7_InsufficientSamples ==
  (/\ \A j \in 1..NbVars : ~ColonneConstante(j)
   /\ NbObservations - Cardinality(SectionsPresentes) < 1) =>
    /\ ~CovarianceFaite
    /\ covarianceBrute = <<>>
    /\ (pc = "cell9" /\ moyennes # <<>>) => erreur = "InsufficientSamplesError"

\* The exception that stopped the run inside cell 9, or "".
ErreurInversion == IF pc = "cell9" THEN erreur ELSE ""

\* The run has left cell 9, normally or with an exception.
Cell9Quittee == CovarianceFaite \/ ErreurInversion # ""

\* C8: cell 9 calls np.linalg.inv first on the covariance as the division
\* left it; it adds 1e-6 to each diagonal entry, once, and calls inv a
\* second and last time exactly when the first call reports a singular
\* matrix; if the second call reports one too the run stops there with the
\* singular-matrix exception and no inverse; cells 11 and 13 only run with
\* the inverse that the last call returned.
C8_InversionProtocol ==
  /\ ~Cell9Quittee =>
       nbInversions = 0 /\ nbRegularisations = 0 /\ covarianceCommuneInv = <<>>
  /\ Cell9Quittee =>
       /\ nbInversions \in {1, 2}
       /\ nbRegularisations = nbInversions - 1
       /\ nbRegularisations = 0 =>
            /\ covarianceCommune = covarianceBrute
            /\ ErreurInversion = ""
            /\ \E b \in BOOLEAN :
                 LET r == NpLinalgInv(covarianceBrute, b)
                 IN r.ok /\ covarianceCommuneInv = r.inv
       /\ nbRegularisations = 1 =>
            /\ \E b \in BOOLEAN : ~NpLinalgInv(covarianceBrute, b).ok
            /\ \A a \in 1..NbVars, b \in 1..NbVars :
                 covarianceCommune[a][b] =
                   IF a = b THEN FAdd(covarianceBrute[a][b], Epsilon)
                   ELSE covarianceBrute[a][b]
            /\ \E b \in BOOLEAN :
                 LET r == NpLinalgInv(covarianceCommune, b)
                 IN IF r.ok
                    THEN ErreurInversion = "" /\ covarianceCommuneInv = r.inv
                    ELSE ErreurInversion = "LinAlgError"
                         /\ covarianceCommuneInv = <<>>
       /\ ErreurInversion # "" => scoresDiscriminants = <<>>
  /\ ScoresFaits =>
       /\ Len(covarianceCommuneInv) = NbVars
       /\ \A a \in 1..NbVars : Len(covarianceCommuneInv[a]) = NbVars

\* The first inversion of a covariance of two subjects reported a singular
\* matrix, the regularised one was inverted, and the scores were computed.
C8_Witness ==
  /\ ScoresFaits /\ EntreeValide /\ NbVars = 2
  /\ nbInversions = 2 /\ nbRegularisations = 1
  /\ \A a \in 1..2, b \in 1..2 : IsFinite(covarianceCommuneInv[a][b])

\* C9, for the datasets on which standardisation and pooled covariance are
\* defined: in every row the exponents handed to np.exp are at most 0, one
\* of them is 0, and no exponential is infinite.
C9_MaxSubtracted ==
  (PosteriorsFaits /\ EntreeValide) =>
    \A i \in 1..nbEchantillons :
      /\ \E k \in 1..nbClasses : IsZero(Exposant(scoresDiscriminants, i, k))
      /\ \A k \in 1..nbClasses :
           /\ FLe(Exposant(scoresDiscriminants, i, k), Zero)
           /\ ~IsInf(expScores[i][k])

\* M is a square matrix whose entries (a, b) and (b, a) hold the same float.
Symetrique(M) ==
  \A a \in 1..Len(M), b \in 1..Len(M) : Len(M[a]) = Len(M) /\ M[a][b] = M[b][a]

\* C10: once cell 9 has run, the accumulated scatter, the covariance that the
\* division by N - K left and the covariance that the cell leaves behind,
\* regularised or not, are symmetric.
C10_Symmetric ==
  Cell9Quittee =>
    /\ Len(covarianceBrute) = NbVars /\ Len(covarianceCommune) = NbVars
    /\ Symetrique(matriceDispersionIntra)
    /\ Symetrique(covarianceBrute)
    /\ Symetrique(covarianceCommune)

\* A regularised covariance of two subjects with a non-zero off-diagonal
\* entry.
C10_Witness ==
  /\ CovarianceFaite /\ EntreeValide /\ NbVars = 2 /\ nbRegularisations = 1
  /\ IsFinite(covarianceCommune[1][2]) /\ ~IsZero(covarianceCommune[1][2])
  /\ covarianceCommune # covarianceBrute

\* min(K - 1, D) for the K classes and D subjects of the dataset.
MaxAxes ==
  IF Cardinality(SectionsPresentes) - 1 < NbVars
  THEN Cardinality(SectionsPresentes) - 1 ELSE NbVars

\* C11: once cell 15 has run on a dataset of at least two classes, the axis
\* matrix vecteursPropres has one row per subject, and its number of
\* columns, the number of entries of ratioVarianceExpliquee and the number
\* of columns of Xprojete (one row per observation) are all nbComposantes,
\* which is at most min(K - 1, D).
C11_AxisCount ==
  (AxesFaits /\ Cardinality(SectionsPresentes) >= 2) =>
    /\ nbComposantes <= MaxAxes
    /\ Len(vecteursPropres) = NbVars
    /\ \A a \in 1..NbVars : Len(vecteursPropres[a]) = nbComposantes
    /\ Len(ratioVarianceExpliquee) = nbComposantes
    /\ Len(Xprojete) = NbObservations
    /\ \A i \in 1..NbObservations : Len(Xprojete[i]) = nbComposantes

\* The axes of a dataset of two subjects and two classes have been
\* computed: one axis is kept out of the two eigenvectors.
C11_Witness ==
  /\ AxesFaits /\ EntreeValide /\ NbVars = 2
  /\ Cardinality(SectionsPresentes) = 2
  /\ Len(vecteursPropresEig[1]) = 2 /\ Len(vecteursPropres[1]) = 1
  /\ IsFinite(Xprojete[1][1])

\* C12: once cell 15 has run, idx is a permutation of the positions of the
\* eigenvalues, the ranked eigenvalues are real and in non-increasing
\* order, the eigenvalue at rank j and column j of the ranked eigenvector
\* matrix are the eigenvalue and the eigenvector that np.linalg.eig
\* returned at position idx[j], and the retained axes are the first
\* nbComposantes ranked columns, so that no eigenvalue left out exceeds a
\* retained one.
C12_Ranking ==
  AxesFaits =>
    /\ Len(idx) = NbVars
    /\ {idx[j] : j \in 1..NbVars} = 0..(NbVars - 1)
    /\ Len(valeursPropres) = NbVars
    /\ \A j \in 1..NbVars : IsZero(valeursPropresImag[j])
    /\ \A j \in 1..(NbVars - 1) : FGe(valeursPropres[j], valeursPropres[j + 1])
    /\ \A j \in 1..NbVars :
         /\ valeursPropres[j] = valeursPropresEig[idx[j] + 1]
         /\ Colonne(vecteursPropresTries, j) =
              Colonne(vecteursPropresEig, idx[j] + 1)
    /\ \A j \in 1..nbComposantes :
         /\ Colonne(vecteursPropres, j) = Colonne(vecteursPropresTries, j)
         /\ \A l \in (nbComposantes + 1)..NbVars :
              FGe(valeursPropres[j], valeursPropres[l])

\* np.linalg.eig returned two different eigenvalues, the smaller first,
\* with different eigenvectors, and the ranking exchanged them.
C12_Witness ==
  /\ AxesFaits /\ EntreeValide /\ NbVars = 2 /\ nbComposantes = 1
  /\ FLt(valeursPropresEig[1], valeursPropresEig[2])
  /\ Colonne(vecteursPropresEig, 1) # Colonne(vecteursPropresEig, 2)
  /\ idx = <<1, 0>>

\* C13, for the datasets on which standardisation and pooled covariance are
\* defined: the pooled covariance that cell 9 leaves behind is the array
\* value that the division of line 196 produced; the regularisation has not
\* changed it.
C13_Immutable ==
  (CovarianceFaite /\ EntreeValide) => covarianceCommune = covarianceBrute

\* Cell 5 has run.
StandardisationFaite == pc \notin {"cell3", "cell5"}

\* The squares of column j of M.
Carres(M, j) == Vec(Len(M), LAMBDA i : FMul(M[i][j], M[i][j]))

\* C14: once cell 5 has run, the entries of every column of Xnormalise add
\* up to 0 and their squares add up to N, each to a few units in the last
\* place of 1 per observation.
C14_Standardised ==
  StandardisationFaite =>
    \A j \in 1..NbVars :
      /\ Proche(FSum(Colonne(Xnormalise, j)), Zero, 2 * NbObservations)
      /\ Proche(FSum(Carres(Xnormalise, j)), FromInt(NbObservations),
                2 * NbObservations)

\* The first row of the data frame that carries the label sec.
PremiereApparition(sec) ==
  CHOOSE i \in 1..NbObservations :
    /\ donnees.section[i] = sec
    /\ \A j \in 1..(i - 1) : donnees.section[j] # sec

\* The rows of the data frame that carry the k-th label of sectionUnique.
LignesDeSection(k) == Masque(donnees.section, sectionUnique[k])

\* C15: whatever the order of the labels in the data frame, sectionUnique
\* lists the K labels by first appearance and the codes are 0..K-1 with
\* code k - 1 for sectionUnique[k]; classes is <<0, ..., K-1>>, so the rows
\* selected by y == k - 1, those selected by y == classes[k] and the rows
\* labelled sectionUnique[k] are the same; probsPrior[k] and moyennes[k] are
\* the proportion and the mean of exactly those rows; column k of the scores
\* is computed from moyennes[k] and probsPrior[k], column k of the
\* posteriors from column k of the scores; and the name reported for a
\* predicted index k - 1 is sectionUnique[k].
C15_ClassIndexing ==
  /\ pc # "cell3" =>
       /\ Len(sectionUnique) = Cardinality(SectionsPresentes)
       /\ \A k \in 1..Len(sectionUnique), l \in 1..Len(sectionUnique) :
            k < l => PremiereApparition(sectionUnique[k])
                       < PremiereApparition(sectionUnique[l])
       /\ {sectionNum[i] : i \in 1..NbObservations}
            = 0..(Cardinality(SectionsPresentes) - 1)
       /\ \A i \in 1..NbObservations :
            sectionUnique[sectionNum[i] + 1] = donnees.section[i]
  /\ PriorsFaits =>
       /\ y = sectionNum
       /\ nbClasses = Len(sectionUnique)
       /\ \A k \in 1..nbClasses :
            /\ classes[k] = k - 1
            /\ Masque(y, k - 1) = LignesDeSection(k)
            /\ Masque(y, classes[k]) = LignesDeSection(k)
            /\ probsPrior[k] =
                 FDiv(FromInt(Len(LignesDeSection(k))), FromInt(NbObservations))
  /\ CovarianceFaite =>
       \A k \in 1..nbClasses :
         moyennes[k] = MoyenneLignes(Xnormalise, LignesDeSection(k))
  /\ ScoresFaits =>
       \A i \in 1..nbEchantillons, k \in 1..nbClasses :
         scoresDiscriminants[i][k] =
           Score(Xnormalise, covarianceCommuneInv, moyennes, probsPrior, i, k)
  /\ PosteriorsFaits =>
       \A i \in 1..nbEchantillons :
         /\ \A k \in 1..nbClasses :
              probsPosterior[i][k] =
                FDiv(FExp(scoresDiscriminants[i][k]), FSum(expScores[i]))
         /\ sectionsPredites[i] = sectionUnique[classesPredites[i] + 1]

\* Three labels that first appear in an order that is not the alphabetical
\* one, in classes of unequal size, have been classified, and a class other
\* than the first has been predicted.
C15_Witness ==
  /\ PosteriorsFaits /\ EntreeValide
  /\ sectionUnique = <<"sciences", "economie", "litterature">>
  /\ Len(LignesDeSection(1)) # Len(LignesDeSection(2))
  /\ \E i \in 1..nbEchantillons :
       classesPredites[i] > 0 /\ sectionsPredites[i] # "sciences"

\* Entry (a, b) of the identity matrix.
Identite(a, b) == IF a = b THEN One ELSE Zero

\* C16: once cell 9 has completed without error, the product of the stored
\* covarianceCommune by the stored covarianceCommuneInv is the identity, to
\* four units in the last place of 1 in every entry; after a
\* regularisation the stored covariance is the regularised matrix, not the
\* one the division left, and the stored inverse is the one np.linalg.inv
\* returns for the regularised matrix.
C16_InverseStored ==
  CovarianceFaite =>
    /\ \A a \in 1..NbVars, b \in 1..NbVars :
         Proche(MatMul(covarianceCommune, covarianceCommuneInv)[a][b],
                Identite(a, b), 4)
    /\ nbRegularisations = 1 =>
         /\ covarianceCommune = Regularise(covarianceBrute)
         /\ covarianceCommune # covarianceBrute
         /\ \E b \in BOOLEAN :
              covarianceCommuneInv = NpLinalgInv(covarianceCommune, b).inv

====
